---- MODULE Spec2Model ----
(***************************************************************************)
(* Task manager: the users and tasks tables, the handlers registerUser,    *)
(* loginUser, createTask, getUserTasks, updateTask, deleteTask, shareTask  *)
(* behind their router, and the dashboard of a signed-in user.             *)
(* Every handler is a sequence of database statements; each statement is   *)
(* atomic and statements of different requests interleave.                 *)
(* Text that the code parses (passwords, salts, credentials) is a          *)
(* sequence of one-character strings; emails, titles and descriptions are  *)
(* opaque strings compared for exact equality.                             *)
(* created_at (timestamp defaultNow()) is the logical time of the row's    *)
(* table, which every insert into the table advances: the n-th insert      *)
(* happens at time n.                                                      *)
(***************************************************************************)
EXTENDS Integers, Sequences, FiniteSets, TLC

VARIABLES users, userSeq, tasks, taskSeq, pc, req, lastResult, dashboard

vars == <<users, userSeq, tasks, taskSeq, pc, req, lastResult, dashboard>>

(***************************************************************************)
(* Bounds of the model.                                                    *)
(***************************************************************************)
NumProcs == 2
MaxUsers == 2
MaxTasks == 2

Procs == 1..NumProcs

(***************************************************************************)
(* Input alphabets.                                                        *)
(***************************************************************************)
Emails == {"a@x.com", "A@x.com"}
Password1 == <<"p", "w", "1">>
Password2 == <<"p", "w", "2">>
Passwords == {Password1, Password2}
LoginPasswords == Passwords \cup {<< >>}

\* Case folding of the modelled emails (used to relate emails that differ
\* only in letter case; the handlers themselves never fold case).
CaseFold(e) == IF e = "A@x.com" THEN "a@x.com" ELSE e

(***************************************************************************)
(* Characters, hex text and byte buffers.                                  *)
(***************************************************************************)
HexLower == <<"0", "1", "2", "3", "4", "5", "6", "7",
              "8", "9", "a", "b", "c", "d", "e", "f">>
HexUpper == <<"0", "1", "2", "3", "4", "5", "6", "7",
              "8", "9", "A", "B", "C", "D", "E", "F">>
OtherChars == <<"p", "w", "m", "l", "z", "s", "k", "Q", ".", "/", "$", ":">>
AllChars == HexLower \o <<"A", "B", "C", "D", "E", "F">> \o OtherChars

CharCode(c) == CHOOSE i \in 1..Len(AllChars) : AllChars[i] = c

IsHexChar(c) == \E i \in 1..16 : HexLower[i] = c \/ HexUpper[i] = c

HexVal(c) == (CHOOSE i \in 1..16 : HexLower[i] = c \/ HexUpper[i] = c) - 1

\* digest('hex'): every byte as two lower-case hex characters.
RECURSIVE ToHex(_)
ToHex(bytes) ==
    IF bytes = << >> THEN << >>
    ELSE <<HexLower[(Head(bytes) \div 16) + 1], HexLower[(Head(bytes) % 16) + 1]>>
         \o ToHex(Tail(bytes))

\* Buffer.from(text, 'hex'): decodes pairs of hex characters, either case,
\* and stops at the first pair that is incomplete or not hexadecimal.
RECURSIVE BufferFromHex(_)
BufferFromHex(text) ==
    IF Len(text) < 2 THEN << >>
    ELSE IF ~(IsHexChar(text[1]) /\ IsHexChar(text[2])) THEN << >>
    ELSE <<HexVal(text[1]) * 16 + HexVal(text[2])>>
         \o BufferFromHex(SubSeq(text, 3, Len(text)))

(***************************************************************************)
(* Credential functions of the login handler.                              *)
(***************************************************************************)
\* Number of bytes of a digest in the model (SHA-256 has 32).
DigestLen == 1

RECURSIVE WeightedSum(_, _, _)
WeightedSum(text, pos, weight) ==
    IF pos > Len(text) THEN 0
    ELSE CharCode(text[pos]) * (pos + weight) + WeightedSum(text, pos + 1, weight)

\* createHash('sha256').update(text).digest(): a deterministic function
\* from text to DigestLen bytes.
Sha256(text) ==
    [i \in 1..DigestLen |-> (WeightedSum(text, 1, 2 * i) + 11 * i + 5 * Len(text)) % 256]

hashPassword(password, salt) == ToHex(Sha256(password \o salt))

\* String.prototype.split(sep): the fields between separators; a text
\* without separator is its only field.
RECURSIVE SplitFrom(_, _, _, _)
SplitFrom(text, sep, pos, field) ==
    IF pos > Len(text) THEN <<field>>
    ELSE IF text[pos] = sep THEN <<field>> \o SplitFrom(text, sep, pos + 1, << >>)
    ELSE SplitFrom(text, sep, pos + 1, Append(field, text[pos]))

Split(text, sep) == SplitFrom(text, sep, 1, << >>)

\* crypto.timingSafeEqual: throws when the buffers differ in length.
timingSafeEqual(a, b) ==
    IF Len(a) # Len(b) THEN [threw |-> TRUE, equal |-> FALSE]
    ELSE [threw |-> FALSE, equal |-> (a = b)]

verifyPassword(password, storedHash) ==
    LET parts == Split(storedHash, ":")
        salt == parts[1]
        hashMissing == Len(parts) < 2
    IN  IF salt = << >> \/ hashMissing THEN FALSE
        ELSE IF parts[2] = << >> THEN FALSE
        ELSE LET hashedInput == hashPassword(password, salt)
                 cmp == timingSafeEqual(BufferFromHex(parts[2]), BufferFromHex(hashedInput))
             IN  IF cmp.threw THEN FALSE ELSE cmp.equal

(***************************************************************************)
(* Results of a call as the caller observes them.                          *)
(***************************************************************************)
NoInput == [none |-> TRUE]
NoValue == [none |-> TRUE]
NoCaller == 0

Resolve(op, caller, input, value) ==
    [op |-> op, caller |-> caller, input |-> input, ok |-> TRUE, error |-> "", value |-> value]

Reject(op, caller, input, message) ==
    [op |-> op, caller |-> caller, input |-> input, ok |-> FALSE, error |-> message,
     value |-> NoValue]

\* No call has returned yet, or the caller has taken the last outcome.
NoResult == [op |-> "none", caller |-> NoCaller, input |-> NoInput, ok |-> TRUE,
             error |-> "", value |-> NoValue]

\* The outcome of a lookup that lets its handler go on to the next statement.
Proceed(op, caller, input) == Resolve(op, caller, input, [pending |-> TRUE])

IsProceed(result) == result.ok /\ result.value = [pending |-> TRUE]

InvalidLoginMsg == "Invalid email or password"
DuplicateEmailMsg == "Email already registered"
UniqueViolationMsg == "duplicate key value violates unique constraint"

\* A projection that hands out the row as selected.
WholeUserRow(user) == user

PublicUser(user) == [id |-> user.id, email |-> user.email, created_at |-> user.created_at]

(***************************************************************************)
(* loginUser: one select, then the verification.                           *)
(***************************************************************************)
\* A lookup under a case-insensitive collation.
SelectUsersByEmailIgnoringCase(store, email) ==
    {u \in store : CaseFold(u.email) = CaseFold(email)}

SelectUsersByEmail(store, email) == {u \in store : u.email = email}

\* A login that tells an unknown email from a wrong password.
loginUserRevealing(store, input) ==
    LET found == SelectUsersByEmail(store, input.email)
    IN  IF found = {} THEN Reject("loginUser", NoCaller, input, "User not found")
        ELSE LET user == CHOOSE u \in found : TRUE
             IN  IF ~verifyPassword(input.password, user.password_hash)
                 THEN Reject("loginUser", NoCaller, input, InvalidLoginMsg)
                 ELSE Resolve("loginUser", NoCaller, input, [user |-> PublicUser(user)])

loginUser(store, input) ==
    LET found == SelectUsersByEmail(store, input.email)
    IN  IF found = {} THEN Reject("loginUser", NoCaller, input, InvalidLoginMsg)
        ELSE LET user == CHOOSE u \in found : TRUE
             IN  IF ~verifyPassword(input.password, user.password_hash)
                 THEN Reject("loginUser", NoCaller, input, InvalidLoginMsg)
                 ELSE Resolve("loginUser", NoCaller, input, [user |-> PublicUser(user)])

\* A login that stamps the user row with the time of the login.
LoginUserStamping(p, inputs) ==
    /\ pc[p] = "idle"
    /\ \E input \in inputs :
          /\ lastResult' = loginUser(users, input)
          /\ users' = IF loginUser(users, input).ok
                      THEN {[u EXCEPT !.created_at = IF u.email = input.email
                                                     THEN userSeq + 1 ELSE @] : u \in users}
                      ELSE users
    /\ UNCHANGED <<userSeq, tasks, taskSeq, pc, req, dashboard>>

LoginUser(p, inputs) ==
    /\ pc[p] = "idle"
    /\ \E input \in inputs : lastResult' = loginUser(users, input)
    /\ UNCHANGED <<users, userSeq, tasks, taskSeq, pc, req, dashboard>>

(***************************************************************************)
(* registerUser: select, hash, insert.                                     *)
(***************************************************************************)
BcryptPrefix == <<"$", "2", "b", "$", "1", "0", "$">>
BcryptAlphabet == <<".", "/", "A", "B", "Q", "a", "k", "z", "0", "9">>
Salt1 == <<"k", "Q">>
Salt2 == <<".", "/">>
BcryptSalts == {Salt1, Salt2}

\* Bun.password.hash(password, {algorithm: 'bcrypt', cost: 10}): the
\* modular crypt format "$2b$10$" + salt + digest over the bcrypt alphabet.
BunPasswordHash(password, salt) ==
    LET digest == Sha256(password \o salt)
    IN  BcryptPrefix \o salt
        \o [i \in 1..DigestLen |-> BcryptAlphabet[(digest[i] % Len(BcryptAlphabet)) + 1]]

\* A registration that never looks for an existing row.
RegisterCheckNoLookup(p, inputs) ==
    /\ pc[p] = "idle"
    /\ \E input \in inputs :
          /\ userSeq + Cardinality({q \in Procs : pc[q] = "register_insert"}) < MaxUsers
          /\ pc' = [pc EXCEPT ![p] = "register_insert"]
          /\ req' = [req EXCEPT ![p] = input]
          /\ UNCHANGED lastResult
    /\ UNCHANGED <<users, userSeq, tasks, taskSeq, dashboard>>

RegisterCheck(p, inputs) ==
    /\ pc[p] = "idle"
    /\ \E input \in inputs :
              IF SelectUsersByEmail(users, input.email) # {}
              THEN /\ lastResult' = Reject("registerUser", NoCaller, input, DuplicateEmailMsg)
                   /\ UNCHANGED <<pc, req>>
              ELSE /\ userSeq + Cardinality({q \in Procs : pc[q] = "register_insert"}) < MaxUsers
                   /\ pc' = [pc EXCEPT ![p] = "register_insert"]
                   /\ req' = [req EXCEPT ![p] = input]
                   /\ UNCHANGED lastResult
    /\ UNCHANGED <<users, userSeq, tasks, taskSeq, dashboard>>

\* An insert into a table whose email column has no unique index.
InsertUserNoUniqueIndex(store, seq, email, passwordHash, now) ==
    LET row == [id |-> seq + 1, email |-> email,
                password_hash |-> passwordHash, created_at |-> now]
    IN  [ok |-> TRUE, store |-> store \cup {row}, seq |-> seq + 1, row |-> row]

\* The insert statement: the serial id is drawn first; the unique index on
\* email rejects a row whose email is already present.
InsertUser(store, seq, email, passwordHash, now) ==
    IF \E u \in store : u.email = email
    THEN [ok |-> FALSE, store |-> store, seq |-> seq + 1, row |-> NoValue]
    ELSE LET row == [id |-> seq + 1, email |-> email,
                     password_hash |-> passwordHash, created_at |-> now]
         IN  [ok |-> TRUE, store |-> store \cup {row}, seq |-> seq + 1, row |-> row]

RegisterInsert(p, salts) ==
    /\ pc[p] = "register_insert"
    /\ \E salt \in salts :
          LET input == req[p]
              passwordHash == BunPasswordHash(input.password, salt)
              ins == InsertUser(users, userSeq, input.email, passwordHash, userSeq + 1)
          IN  /\ users' = ins.store
              /\ userSeq' = ins.seq
              /\ lastResult' =
                    IF ins.ok
                    THEN Resolve("registerUser", NoCaller, input, [user |-> PublicUser(ins.row)])
                    ELSE Reject("registerUser", NoCaller, input, UniqueViolationMsg)
    /\ pc' = [pc EXCEPT ![p] = "idle"]
    /\ req' = [req EXCEPT ![p] = NoInput]
    /\ UNCHANGED <<tasks, taskSeq, dashboard>>

(***************************************************************************)
(* Task inputs.  A field that the caller may leave out (every field of an  *)
(* update, completed of a create) is a sequence of length 0 (undefined) or *)
(* 1 (the value supplied).                                                 *)
(***************************************************************************)
Titles == {"T1", "T2"}
Descriptions == {"", "D"}
UserIds == 1..MaxUsers
TaskIds == 1..MaxTasks

Supplied(S) == {<<v>> : v \in S}

Optional(S) == {<< >>} \cup Supplied(S)

LoginInputs(emails, passwords) == [email : emails, password : passwords]

RegisterInputs(emails, passwords) == [email : emails, password : passwords]

CreateInputs(titles, descriptions, dueDates, flags) ==
    [user_id : UserIds, title : titles, description : descriptions,
     due_date : dueDates, completed : flags]

UpdateInputs(titles, descriptions, dueDates, flags) ==
    [id : TaskIds, title : Optional(titles), description : Optional(descriptions),
     due_date : Optional(dueDates), completed : Optional(flags)]

TaskKeys == [id : TaskIds, user_id : UserIds]

\* A title with quotes and an ampersand.
SpecialTitle == "Fix \"critical\" bug & update docs"

TitleRequiredMsg == "Title is required"

\* createTaskInputSchema.safeParse on an object of the right field types:
\* title has min(1) and completed has default(false).
createTaskInputSchema(raw) ==
    IF raw.title = ""
    THEN [success |-> FALSE, error |-> TitleRequiredMsg, data |-> NoValue]
    ELSE [success |-> TRUE, error |-> "",
          data |-> [raw EXCEPT !.completed = IF @ = << >> THEN <<FALSE>> ELSE @]]

TaskNotFoundMsg(id) == "Task with id " \o ToString(id) \o " not found"
UpdateFailedMsg(id) == "Failed to update task with id " \o ToString(id)
UserNotFoundMsg(id) == "User with id " \o ToString(id) \o " not found"
AccessDeniedMsg == "Task not found or access denied"

SelectTasksById(store, id) == {t \in store : t.id = id}

SelectTasksByIdAndUser(store, id, user_id) ==
    {t \in store : t.id = id /\ t.user_id = user_id}

(***************************************************************************)
(* createTask: the owner lookup and the insert.  Users are never deleted,  *)
(* so the lookup's answer still holds at the insert and the two statements *)
(* are one step.  A completed that is undefined is left out of the insert  *)
(* and the column takes its default.                                       *)
(***************************************************************************)
\* A column whose default is true.
CompletedDefaultTrue == TRUE

CompletedDefault == FALSE

\* A create that inserts without looking for the owner.
CreateTaskNoOwnerCheck(p, inputs) ==
    /\ pc[p] = "idle"
    /\ \E input \in inputs :
          /\ taskSeq < MaxTasks
          /\ LET task == [id |-> taskSeq + 1, user_id |-> input.user_id,
                          title |-> input.title, description |-> input.description,
                          due_date |-> input.due_date,
                          completed |-> IF input.completed = << >>
                                        THEN CompletedDefault
                                        ELSE input.completed[1],
                          created_at |-> taskSeq + 1]
             IN  /\ tasks' = tasks \cup {task}
                 /\ taskSeq' = taskSeq + 1
                 /\ lastResult' = Resolve("createTask", NoCaller, input, task)
    /\ UNCHANGED <<users, userSeq, pc, req, dashboard>>

\* A create whose id is the smallest one no stored task has.
CreateTaskReusingIds(p, inputs) ==
    /\ pc[p] = "idle"
    /\ \E input \in inputs :
              IF {u \in users : u.id = input.user_id} = {}
              THEN /\ lastResult' = Reject("createTask", NoCaller, input,
                                          UserNotFoundMsg(input.user_id))
                   /\ UNCHANGED <<tasks, taskSeq>>
              ELSE /\ taskSeq < MaxTasks
                   /\ LET free == {i \in 1..(taskSeq + 1) : \A t \in tasks : t.id # i}
                          id == CHOOSE i \in free : \A j \in free : i <= j
                          task == [id |-> id, user_id |-> input.user_id,
                                   title |-> input.title, description |-> input.description,
                                   due_date |-> input.due_date,
                                   completed |-> IF input.completed = << >>
                                                 THEN CompletedDefault
                                                 ELSE input.completed[1],
                                   created_at |-> taskSeq + 1]
                      IN  /\ tasks' = tasks \cup {task}
                          /\ taskSeq' = taskSeq + 1
                          /\ lastResult' = Resolve("createTask", NoCaller, input, task)
    /\ UNCHANGED <<users, userSeq, pc, req, dashboard>>

CreateTask(p, inputs) ==
    /\ pc[p] = "idle"
    /\ \E input \in inputs :
              IF {u \in users : u.id = input.user_id} = {}
              THEN /\ lastResult' = Reject("createTask", NoCaller, input,
                                          UserNotFoundMsg(input.user_id))
                   /\ UNCHANGED <<tasks, taskSeq>>
              ELSE /\ taskSeq < MaxTasks
                   /\ LET task == [id |-> taskSeq + 1, user_id |-> input.user_id,
                                   title |-> input.title, description |-> input.description,
                                   due_date |-> input.due_date,
                                   completed |-> IF input.completed = << >>
                                                 THEN CompletedDefault
                                                 ELSE input.completed[1],
                                   created_at |-> taskSeq + 1]
                      IN  /\ tasks' = tasks \cup {task}
                          /\ taskSeq' = taskSeq + 1
                          /\ lastResult' = Resolve("createTask", NoCaller, input, task)
    /\ UNCHANGED <<users, userSeq, pc, req, dashboard>>

(***************************************************************************)
(* updateTask: select by id, build the update object, update by id.        *)
(* The input carries no user id; caller is the user on whose behalf the    *)
(* request was sent, which the handler never sees: it appears only in the  *)
(* record of the call's outcome.                                           *)
(***************************************************************************)
NoFields(input) ==
    /\ input.title = << >>
    /\ input.description = << >>
    /\ input.due_date = << >>
    /\ input.completed = << >>

\* An update object that takes a field only when its value is truthy.
ApplyUpdateTruthy(task, input) ==
    [task EXCEPT
       !.title = IF input.title # << >> /\ input.title[1] # "" THEN input.title[1] ELSE @,
       !.description = IF input.description # << >> /\ input.description[1] # ""
                       THEN input.description[1] ELSE @,
       !.due_date = IF input.due_date # << >> THEN input.due_date[1] ELSE @,
       !.completed = IF input.completed # << >> /\ input.completed[1] THEN TRUE ELSE @]

\* An update object whose completed falls back to false when the input
\* leaves it out.
ApplyUpdateResettingCompleted(task, input) ==
    [task EXCEPT
       !.title = IF input.title # << >> THEN input.title[1] ELSE @,
       !.description = IF input.description # << >> THEN input.description[1] ELSE @,
       !.due_date = IF input.due_date # << >> THEN input.due_date[1] ELSE @,
       !.completed = IF input.completed # << >> THEN input.completed[1] ELSE FALSE]

ApplyUpdate(task, input) ==
    [task EXCEPT
       !.title = IF input.title # << >> THEN input.title[1] ELSE @,
       !.description = IF input.description # << >> THEN input.description[1] ELSE @,
       !.due_date = IF input.due_date # << >> THEN input.due_date[1] ELSE @,
       !.completed = IF input.completed # << >> THEN input.completed[1] ELSE @]

\* An updateTask that runs its update statement without a select before it.
updateTaskLookupSkipped(store, input, caller) == Proceed("updateTask", caller, input)

\* The select that opens updateTask and the two returns that follow it: the
\* rejection, the stored task when no field is supplied, or the go-ahead
\* for the update statement.
updateTaskLookup(store, input, caller) ==
    LET existingTasks == SelectTasksById(store, input.id)
    IN  IF existingTasks = {}
        THEN Reject("updateTask", caller, input, TaskNotFoundMsg(input.id))
        ELSE IF NoFields(input)
        THEN Resolve("updateTask", caller, input, CHOOSE t \in existingTasks : TRUE)
        ELSE Proceed("updateTask", caller, input)

\* An update statement without its where clause.
updateTaskStatementOfEveryRow(store, input, caller) ==
    LET matched == SelectTasksById(store, input.id)
    IN  IF matched = {}
        THEN [store |-> store,
              result |-> Reject("updateTask", caller, input, UpdateFailedMsg(input.id))]
        ELSE [store |-> {ApplyUpdate(t, input) : t \in store},
              result |-> Resolve("updateTask", caller, input,
                                 ApplyUpdate(CHOOSE t \in matched : TRUE, input))]

\* The update statement with returning(), and the handler's return.
updateTaskStatement(store, input, caller) ==
    LET matched == SelectTasksById(store, input.id)
    IN  IF matched = {}
        THEN [store |-> store,
              result |-> Reject("updateTask", caller, input, UpdateFailedMsg(input.id))]
        ELSE LET updated == ApplyUpdate(CHOOSE t \in matched : TRUE, input)
             IN  [store |-> (store \ matched) \cup {updated},
                  result |-> Resolve("updateTask", caller, input, updated)]

UpdateCheck(p, inputs) ==
    /\ pc[p] = "idle"
    /\ \E input \in inputs, caller \in {u.id : u \in users} :
          LET look == updateTaskLookup(tasks, input, caller)
          IN  IF ~IsProceed(look)
              THEN /\ lastResult' = look
                   /\ UNCHANGED <<pc, req>>
              ELSE /\ pc' = [pc EXCEPT ![p] = "update_write"]
                   /\ req' = [req EXCEPT ![p] = input]
                   /\ UNCHANGED lastResult
    /\ UNCHANGED <<users, userSeq, tasks, taskSeq, dashboard>>

UpdateWrite(p) ==
    /\ pc[p] = "update_write"
    /\ \E caller \in {u.id : u \in users} :
          LET write == updateTaskStatement(tasks, req[p], caller)
          IN  /\ tasks' = write.store
              /\ lastResult' = write.result
    /\ pc' = [pc EXCEPT ![p] = "idle"]
    /\ req' = [req EXCEPT ![p] = NoInput]
    /\ UNCHANGED <<users, userSeq, taskSeq, dashboard>>

\* updateTask of a request that no other request overlaps: the select and
\* the update statement see the same store.
UpdateTask(p, inputs, callers) ==
    /\ pc[p] = "idle"
    /\ \E input \in inputs, caller \in callers :
          LET look == updateTaskLookup(tasks, input, caller)
              write == updateTaskStatement(tasks, input, caller)
          IN  IF IsProceed(look)
              THEN /\ tasks' = write.store
                   /\ lastResult' = write.result
              ELSE /\ tasks' = tasks
                   /\ lastResult' = look
    /\ UNCHANGED <<users, userSeq, taskSeq, pc, req, dashboard>>

(***************************************************************************)
(* deleteTask: select by id and owner, delete by id and owner.             *)
(***************************************************************************)
\* A lookup by id alone.
deleteTaskLookupByIdOnly(store, input) ==
    IF SelectTasksById(store, input.id) = {}
    THEN Reject("deleteTask", input.user_id, input, AccessDeniedMsg)
    ELSE Proceed("deleteTask", input.user_id, input)

deleteTaskLookup(store, input) ==
    IF SelectTasksByIdAndUser(store, input.id, input.user_id) = {}
    THEN Reject("deleteTask", input.user_id, input, AccessDeniedMsg)
    ELSE Proceed("deleteTask", input.user_id, input)

DeleteCheck(p, inputs) ==
    /\ pc[p] = "idle"
    /\ \E input \in inputs :
              IF ~deleteTaskLookup(tasks, input).ok
              THEN /\ lastResult' = deleteTaskLookup(tasks, input)
                   /\ UNCHANGED <<pc, req>>
              ELSE /\ pc' = [pc EXCEPT ![p] = "delete_exec"]
                   /\ req' = [req EXCEPT ![p] = input]
                   /\ UNCHANGED lastResult
    /\ UNCHANGED <<users, userSeq, tasks, taskSeq, dashboard>>

\* A delete statement whose condition is the owner alone.
DeleteExecAllOfUser(p) ==
    /\ pc[p] = "delete_exec"
    /\ LET input == req[p]
       IN  /\ tasks' = {t \in tasks : t.user_id # input.user_id}
           /\ lastResult' = Resolve("deleteTask", input.user_id, input, [success |-> TRUE])
    /\ pc' = [pc EXCEPT ![p] = "idle"]
    /\ req' = [req EXCEPT ![p] = NoInput]
    /\ UNCHANGED <<users, userSeq, taskSeq, dashboard>>

DeleteExec(p) ==
    /\ pc[p] = "delete_exec"
    /\ LET input == req[p]
       IN  /\ tasks' = tasks \ SelectTasksByIdAndUser(tasks, input.id, input.user_id)
           /\ lastResult' = Resolve("deleteTask", input.user_id, input, [success |-> TRUE])
    /\ pc' = [pc EXCEPT ![p] = "idle"]
    /\ req' = [req EXCEPT ![p] = NoInput]
    /\ UNCHANGED <<users, userSeq, taskSeq, dashboard>>

(***************************************************************************)
(* shareTask: select by id and owner, format the text.                     *)
(***************************************************************************)
\* Text as an HTML page would carry it.
EscapeHtml(text) ==
    IF text = SpecialTitle THEN "Fix &quot;critical&quot; bug &amp; update docs" ELSE text

\* A template that escapes what it embeds.
ShareTextEscaped(task) ==
    "Check out my task: \"" \o EscapeHtml(task.title) \o "\"\n\nDescription: "
    \o EscapeHtml(task.description) \o "\n\n#TaskManagement #Productivity"

ShareText(task) ==
    "Check out my task: \"" \o task.title \o "\"\n\nDescription: " \o task.description
    \o "\n\n#TaskManagement #Productivity"

\* A share that tells another user's task from a missing one.
shareTaskRevealing(store, input) ==
    LET found == SelectTasksByIdAndUser(store, input.id, input.user_id)
    IN  IF found = {}
        THEN Reject("shareTask", input.user_id, input,
                    IF SelectTasksById(store, input.id) = {}
                    THEN "Task not found" ELSE "Access denied")
        ELSE Resolve("shareTask", input.user_id, input,
                     [shareText |-> ShareText(CHOOSE t \in found : TRUE)])

shareTask(store, input) ==
    LET found == SelectTasksByIdAndUser(store, input.id, input.user_id)
    IN  IF found = {}
        THEN Reject("shareTask", input.user_id, input, AccessDeniedMsg)
        ELSE Resolve("shareTask", input.user_id, input,
                     [shareText |-> ShareText(CHOOSE t \in found : TRUE)])

ShareTask(p, inputs) ==
    /\ pc[p] = "idle"
    /\ \E input \in inputs : lastResult' = shareTask(tasks, input)
    /\ UNCHANGED <<users, userSeq, tasks, taskSeq, pc, req, dashboard>>

(***************************************************************************)
(* getUserTasks: one select with where user_id and order by due_date.      *)
(* The statement names no second sort key, so rows with equal due_date     *)
(* come in whatever order the database produces them: every order is a     *)
(* possible result.                                                        *)
(***************************************************************************)
UserKeys == [user_id : UserIds]

\* All sequences that hold every row of the set once.
Orderings(rows) ==
    {order \in [1..Cardinality(rows) -> rows] :
        \A i \in DOMAIN order : \A j \in DOMAIN order : order[i] = order[j] => i = j}

\* A select without order by.
AnyOrder(rows) == Orderings(rows)

\* orderBy(asc(tasksTable.due_date)).
OrderByDueDate(rows) ==
    {order \in Orderings(rows) :
        \A i \in DOMAIN order : \A j \in DOMAIN order :
            i < j => order[i].due_date <= order[j].due_date}

\* A select without the where clause.
getUserTasksOfEveryone(store, input) == OrderByDueDate(store)

\* A select that leaves out the completed tasks.
getUserTasksNotCompleted(store, input) ==
    OrderByDueDate({t \in store : t.user_id = input.user_id /\ ~t.completed})

\* The results the select can produce.
getUserTasks(store, input) ==
    OrderByDueDate({t \in store : t.user_id = input.user_id})

GetUserTasks(p, inputs) ==
    /\ pc[p] = "idle"
    /\ \E input \in inputs : \E results \in getUserTasks(tasks, input) :
          lastResult' = Resolve("getUserTasks", input.user_id, input, results)
    /\ UNCHANGED <<users, userSeq, tasks, taskSeq, pc, req, dashboard>>

(***************************************************************************)
(* The remote-procedure surface: publicProcedure.input(schema) parses the  *)
(* raw input and calls the handler with the parsed data; a raw input that  *)
(* fails its schema is rejected before the handler runs.                   *)
(***************************************************************************)
\* An update schema whose title has no min(1).
updateTaskInputSchemaAnyTitle(raw) == [success |-> TRUE, error |-> "", data |-> raw]

\* updateTaskInputSchema.safeParse on an object of the right field types:
\* a supplied title has min(1), every field but id is optional.
updateTaskInputSchema(raw) ==
    IF raw.title = <<"">>
    THEN [success |-> FALSE, error |-> TitleRequiredMsg, data |-> NoValue]
    ELSE [success |-> TRUE, error |-> "", data |-> raw]

createTaskProcedure(p, raws) ==
    \E raw \in raws :
        LET parsed == createTaskInputSchema(raw)
        IN  IF parsed.success
            THEN CreateTask(p, {parsed.data})
            ELSE /\ pc[p] = "idle"
                 /\ lastResult' = Reject("createTask", NoCaller, raw, parsed.error)
                 /\ UNCHANGED <<users, userSeq, tasks, taskSeq, pc, req, dashboard>>

\* The call of a request that no other request overlaps.
updateTaskProcedure(p, raws, callers) ==
    \E raw \in raws :
        LET parsed == updateTaskInputSchema(raw)
        IN  IF parsed.success
            THEN UpdateTask(p, {parsed.data}, callers)
            ELSE /\ pc[p] = "idle"
                 /\ \E caller \in callers :
                       lastResult' = Reject("updateTask", caller, raw, parsed.error)
                 /\ UNCHANGED <<users, userSeq, tasks, taskSeq, pc, req, dashboard>>

(***************************************************************************)
(* The dashboard of a signed-in user: TaskDashboard and the TaskList it    *)
(* renders.  dashboard.tasks is the component's tasks state and            *)
(* dashboard.screen what its last render showed.  A handler runs up to its *)
(* await in one step, in which the server also handles the call, and       *)
(* resumes in a later step that takes the outcome.  Times are milliseconds *)
(* as Date.getTime() gives them.                                           *)
(***************************************************************************)
MsPerHour == 1000 * 3600

\* A status that counts a task due in exactly 24 hours as due soon.
getDueDateStatusInclusive(task, now) ==
    IF task.completed
    THEN "completed"
    ELSE LET timeDiff == task.due_date - now
         IN  IF timeDiff < 0 THEN "overdue"
             ELSE IF timeDiff <= 24 * MsPerHour THEN "due-soon"
             ELSE "normal"

\* hoursDiff = timeDiff / (1000 * 3600) is compared with 0 and with 24;
\* the comparisons are made here on timeDiff, which avoids the division.
getDueDateStatus(task, now) ==
    IF task.completed
    THEN "completed"
    ELSE LET timeDiff == task.due_date - now
         IN  IF timeDiff < 0 THEN "overdue"
             ELSE IF timeDiff < 24 * MsPerHour THEN "due-soon"
             ELSE "normal"

filteredTasks(list, activeTab, now) ==
    SelectSeq(list, LAMBDA task :
        CASE activeTab = "completed" -> task.completed
          [] activeTab = "pending" -> ~task.completed
          [] activeTab = "overdue" -> ~task.completed /\ task.due_date < now
          [] OTHER -> TRUE)

overdueTasks(list, now) ==
    Len(SelectSeq(list, LAMBDA task : ~task.completed /\ task.due_date < now))

\* What a render at time now shows: one card with its status badge per
\* task, the content of the overdue tab and the overdue counter.
Screen(list, now) ==
    [now |-> now,
     cards |-> [i \in 1..Len(list) |->
                   [task |-> list[i], status |-> getDueDateStatus(list[i], now)]],
     overdueTab |-> filteredTasks(list, "overdue", now),
     overdueTasks |-> overdueTasks(list, now)]

\* useState<Task[]>([]) and the first render.
EmptyDashboard == [tasks |-> << >>, screen |-> Screen(<< >>, 0)]

\* The user prop of the dashboard.
DashboardUser == 1

\* A state setter with a new list: the component renders again, reading
\* the clock.
setTasks(list, nows) ==
    \E now \in nows : dashboard' = [tasks |-> list, screen |-> Screen(list, now)]

\* A render for any other reason (a tab switch, a form opening).
Render(nows) ==
    /\ setTasks(dashboard.tasks, nows)
    /\ UNCHANGED <<users, userSeq, tasks, taskSeq, pc, req, lastResult>>

\* The ids of the cards, which the edit, toggle and delete controls send.
ListedIds == {dashboard.tasks[i].id : i \in DOMAIN dashboard.tasks}

\* loadTasks up to the answer of trpc.getUserTasks.query.
loadTasksCall ==
    /\ lastResult = NoResult
    /\ GetUserTasks(1, {[user_id |-> DashboardUser]})

\* setTasks(userTasks), or the catch branch.
loadTasks(nows) ==
    /\ lastResult.op = "getUserTasks"
    /\ IF lastResult.ok
       THEN setTasks(lastResult.value, nows)
       ELSE UNCHANGED dashboard
    /\ lastResult' = NoResult
    /\ UNCHANGED <<users, userSeq, tasks, taskSeq, pc, req>>

\* handleCreateTask up to the answer of trpc.createTask.mutate.
handleCreateTaskCall(taskData) ==
    /\ lastResult = NoResult
    /\ createTaskProcedure(1, {raw \in taskData : raw.user_id = DashboardUser})

\* setTasks(prev => [...prev, newTask]), or the catch branch.
handleCreateTask(nows) ==
    /\ lastResult.op = "createTask"
    /\ IF lastResult.ok
       THEN setTasks(Append(dashboard.tasks, lastResult.value), nows)
       ELSE UNCHANGED dashboard
    /\ lastResult' = NoResult
    /\ UNCHANGED <<users, userSeq, tasks, taskSeq, pc, req>>

\* handleUpdateTask up to the answer of trpc.updateTask.mutate.
handleUpdateTaskCall(updates) ==
    /\ lastResult = NoResult
    /\ updateTaskProcedure(1, {raw \in updates : raw.id \in ListedIds}, {DashboardUser})

\* setTasks(prev => prev.map(task => task.id === taskId ? updatedTask : task)),
\* or the catch branch.
handleUpdateTask(nows) ==
    /\ lastResult.op = "updateTask"
    /\ IF lastResult.ok
       THEN setTasks([i \in 1..Len(dashboard.tasks) |->
                         IF dashboard.tasks[i].id = lastResult.input.id
                         THEN lastResult.value
                         ELSE dashboard.tasks[i]], nows)
       ELSE UNCHANGED dashboard
    /\ lastResult' = NoResult
    /\ UNCHANGED <<users, userSeq, tasks, taskSeq, pc, req>>

\* handleDeleteTask up to the select of deleteTask.
handleDeleteTaskCall ==
    /\ lastResult = NoResult
    /\ DeleteCheck(1, {key \in TaskKeys : key.id \in ListedIds /\ key.user_id = DashboardUser})

\* setTasks(prev => prev.filter(task => task.id !== taskId)), or the catch
\* branch.
handleDeleteTask(nows) ==
    /\ lastResult.op = "deleteTask"
    /\ IF lastResult.ok
       THEN setTasks(SelectSeq(dashboard.tasks, LAMBDA task : task.id # lastResult.input.id),
                     nows)
       ELSE UNCHANGED dashboard
    /\ lastResult' = NoResult
    /\ UNCHANGED <<users, userSeq, tasks, taskSeq, pc, req>>

(***************************************************************************)
(* Specifications.                                                         *)
(***************************************************************************)
\* The state after createDB: both tables empty, both serials unused.
Init ==
    /\ users = {}
    /\ userSeq = 0
    /\ tasks = {}
    /\ taskSeq = 0
    /\ pc = [p \in Procs |-> "idle"]
    /\ req = [p \in Procs |-> NoInput]
    /\ lastResult = NoResult
    /\ dashboard = EmptyDashboard

\* The whole server, with requests interleaving statement by statement.
Next ==
    \E p \in Procs :
        \/ RegisterCheck(p, RegisterInputs(Emails, {Password1}))
        \/ RegisterInsert(p, {Salt1})
        \/ LoginUser(p, LoginInputs(Emails, {Password1}))
        \/ CreateTask(p, CreateInputs(Titles, {"D"}, {1}, Supplied(BOOLEAN)))
        \/ UpdateCheck(p, UpdateInputs({"T2"}, {}, {}, BOOLEAN))
        \/ UpdateWrite(p)
        \/ DeleteCheck(p, TaskKeys)
        \/ DeleteExec(p)
        \/ ShareTask(p, TaskKeys)

Spec == Init /\ [][Next]_vars

(***************************************************************************)
(* The task subsystem on a store whose users were inserted directly, with  *)
(* one request at a time: every call runs to its end before the next one   *)
(* starts.                                                                 *)
(***************************************************************************)
SeedEmails == <<"a@x.com", "A@x.com">>

SeededUsers(n) ==
    {[id |-> i, email |-> SeedEmails[i], password_hash |-> <<"m", "a", "l">>,
      created_at |-> i] : i \in 1..n}

InitTasks ==
    /\ \E n \in 1..Len(SeedEmails) : users = SeededUsers(n)
    /\ userSeq = Cardinality(users)
    /\ tasks = {}
    /\ taskSeq = 0
    /\ pc = [p \in Procs |-> "idle"]
    /\ req = [p \in Procs |-> NoInput]
    /\ lastResult = NoResult
    /\ dashboard = EmptyDashboard

NextTasks ==
    \/ CreateTask(1, CreateInputs(Titles, {"D"}, {1}, Supplied(BOOLEAN)))
    \/ UpdateCheck(1, UpdateInputs({"T2"}, {}, {}, BOOLEAN))
    \/ UpdateWrite(1)
    \/ DeleteCheck(1, TaskKeys)
    \/ DeleteExec(1)
    \/ ShareTask(1, TaskKeys)

SpecTasks == InitTasks /\ [][NextTasks]_vars

(***************************************************************************)
(* Creating, editing and sharing the tasks of one user, with every field   *)
(* of a task taking two values and one request at a time.                  *)
(***************************************************************************)
EditCreateInputs == CreateInputs({SpecialTitle}, {"D"}, {1}, Optional(BOOLEAN))

EditUpdateInputs == UpdateInputs({"T2"}, {""}, {2}, {FALSE})

InitEdit ==
    /\ users = SeededUsers(1)
    /\ userSeq = 1
    /\ tasks = {}
    /\ taskSeq = 0
    /\ pc = [p \in Procs |-> "idle"]
    /\ req = [p \in Procs |-> NoInput]
    /\ lastResult = NoResult
    /\ dashboard = EmptyDashboard

NextEdit ==
    \/ CreateTask(1, EditCreateInputs)
    \/ UpdateTask(1, EditUpdateInputs, {1})
    \/ ShareTask(1, TaskKeys)

SpecEdit == InitEdit /\ [][NextEdit]_vars

(***************************************************************************)
(* Listing tasks whose due dates are set by creates and changed by         *)
(* updates, and which deletes remove, one request at a time.               *)
(***************************************************************************)
DueDates == {1, 2}

NextList ==
    \/ CreateTask(1, CreateInputs({"T1"}, {"D"}, DueDates, {<<FALSE>>}))
    \/ UpdateTask(1, UpdateInputs({}, {}, DueDates, {}), {1})
    \/ DeleteCheck(1, TaskKeys)
    \/ DeleteExec(1)
    \/ GetUserTasks(1, UserKeys)

SpecList == InitTasks /\ [][NextList]_vars

(***************************************************************************)
(* The whole server with one request at a time, on a database that is      *)
(* empty or holds one user whose credential verifies.                      *)
(***************************************************************************)
InitSeq ==
    /\ \/ users = {}
       \/ users = {[id |-> 1, email |-> "a@x.com",
                    password_hash |-> <<"1", "f", ":">> \o hashPassword(Password1, <<"1", "f">>),
                    created_at |-> 1]}
    /\ userSeq = Cardinality(users)
    /\ tasks = {}
    /\ taskSeq = 0
    /\ pc = [p \in Procs |-> "idle"]
    /\ req = [p \in Procs |-> NoInput]
    /\ lastResult = NoResult
    /\ dashboard = EmptyDashboard

NextSeq ==
    \/ RegisterCheck(1, RegisterInputs(Emails, {Password1}))
    \/ RegisterInsert(1, {Salt1})
    \/ LoginUser(1, LoginInputs({"a@x.com"}, Passwords))
    \/ CreateTask(1, CreateInputs({"T1"}, {"D"}, {1}, {<< >>, <<TRUE>>}))
    \/ UpdateTask(1, UpdateInputs({"T2"}, {}, {}, BOOLEAN), {1})
    \/ DeleteCheck(1, TaskKeys)
    \/ DeleteExec(1)
    \/ ShareTask(1, TaskKeys)
    \/ GetUserTasks(1, UserKeys)

SpecSeq == InitSeq /\ [][NextSeq]_vars

(***************************************************************************)
(* Overlapping task requests of one user: the requests of the processes    *)
(* are taken statement by statement, so that a lookup of one request and   *)
(* its write can have statements of other requests between them.           *)
(***************************************************************************)
RaceCreates ==
    {input \in CreateInputs({"T1"}, {"D"}, {1}, {<<FALSE>>}) : input.user_id = 1}

\* Two updates per task: both supply title and description, with different
\* values; one supplies completed and the other due_date.
RaceUpdates ==
    {[id |-> id, title |-> <<"T2">>, description |-> <<"E">>, due_date |-> << >>,
      completed |-> <<TRUE>>] : id \in TaskIds}
    \cup {[id |-> id, title |-> <<"T3">>, description |-> <<"F">>, due_date |-> <<2>>,
           completed |-> << >>] : id \in TaskIds}

NextRace ==
    \E p \in Procs :
        \/ CreateTask(p, RaceCreates)
        \/ UpdateCheck(p, RaceUpdates)
        \/ UpdateWrite(p)

SpecRace == InitEdit /\ [][NextRace]_vars

(***************************************************************************)
(* The task procedures of the router, called with raw inputs that have the *)
(* right field types, among them empty titles and empty descriptions.      *)
(***************************************************************************)
RouterCreates == CreateInputs({"", "T1"}, {"", "D"}, {1}, {<< >>})

RouterUpdates == UpdateInputs({"", "T2"}, {""}, {}, {})

NextRouter ==
    \/ createTaskProcedure(1, RouterCreates)
    \/ updateTaskProcedure(1, RouterUpdates, {1})
    \/ GetUserTasks(1, UserKeys)

SpecRouter == InitEdit /\ [][NextRouter]_vars

(***************************************************************************)
(* One dashboard, of user 1, as the only client of the server.  The create *)
(* form may send an empty title, which the router rejects.  The clock      *)
(* readings lie around the due dates and around 24 hours before them.      *)
(***************************************************************************)
DashboardCreates == CreateInputs({"", "T1"}, {"D"}, DueDates, {<< >>})

DashboardUpdates == UpdateInputs({}, {}, DueDates, {TRUE})

Nows == {1 - 24 * MsPerHour, 2 - 24 * MsPerHour, 1, 2}

NextDashboard ==
    \/ loadTasksCall
    \/ loadTasks(Nows)
    \/ handleCreateTaskCall(DashboardCreates)
    \/ handleCreateTask(Nows)
    \/ handleUpdateTaskCall(DashboardUpdates)
    \/ handleUpdateTask(Nows)
    \/ handleDeleteTaskCall
    \/ DeleteExec(1)
    \/ handleDeleteTask(Nows)
    \/ Render(Nows)

SpecDashboard == InitEdit /\ [][NextDashboard]_vars

(***************************************************************************)
(* The credential subsystem on a store that was seeded by direct inserts   *)
(* into the users table, with credentials of every shape the text column  *)
(* can hold.                                                               *)
(***************************************************************************)
SeedSalt == <<"1", "f">>

\* createPasswordHash of the login tests: salt + ":" + hashPassword.
createPasswordHash(password, salt) == salt \o <<":">> \o hashPassword(password, salt)

UpperCase(text) ==
    [i \in 1..Len(text) |->
        IF \E k \in 11..16 : HexLower[k] = text[i]
        THEN HexUpper[CHOOSE k \in 11..16 : HexLower[k] = text[i]]
        ELSE text[i]]

SeedCredentials ==
    LET good == createPasswordHash(Password1, SeedSalt)
        digest == hashPassword(Password1, SeedSalt)
    IN  { good,
          <<"m", "a", "l">>,
          <<":">> \o digest,
          SeedSalt \o <<":">>,
          SeedSalt \o <<":", "z", "z">>,
          good \o <<"0", "0">>,
          SeedSalt \o <<":">> \o UpperCase(digest),
          good \o <<"z">>,
          good \o <<":", "z">> }

InitSeeded ==
    /\ \/ users = {}
       \/ \E email \in Emails, credential \in SeedCredentials :
             users = {[id |-> 1, email |-> email, password_hash |-> credential,
                       created_at |-> 1]}
    /\ userSeq = Cardinality(users)
    /\ tasks = {}
    /\ taskSeq = 0
    /\ pc = [p \in Procs |-> "idle"]
    /\ req = [p \in Procs |-> NoInput]
    /\ lastResult = NoResult
    /\ dashboard = EmptyDashboard

NextAuth ==
    \E p \in Procs :
        \/ RegisterCheck(p, RegisterInputs(Emails, Passwords))
        \/ RegisterInsert(p, BcryptSalts)
        \/ LoginUser(p, LoginInputs(Emails, LoginPasswords))

SpecAuth == InitSeeded /\ [][NextAuth]_vars

(***************************************************************************)
(* Properties of the credential subsystem.                                 *)
(***************************************************************************)

\* C1: in every reachable state of the user store, whatever the
\* interleaving of the registerUser calls, no two user rows have the same
\* email.
C1_UniqueEmail ==
    \A u1 \in users : \A u2 \in users : u1.email = u2.email => u1 = u2

\* Two registrations of one email overlapped: one inserted its row, the
\* other reached its insert and was turned away by the index.
C1_Witness ==
    /\ lastResult.op = "registerUser"
    /\ lastResult.error = UniqueViolationMsg
    /\ \E u \in users : u.email = lastResult.input.email

\* C2: a registerUser call that finds a user with exactly its email fails
\* with 'Email already registered' and leaves the user store as it was: no
\* row added, no row modified, no serial drawn.
C2_DuplicateRejected ==
    [][\A p \in Procs : \A input \in RegisterInputs(Emails, Passwords) :
          (RegisterCheck(p, {input}) /\ (\E u \in users : u.email = input.email))
          => /\ lastResult' = Reject("registerUser", NoCaller, input, DuplicateEmailMsg)
             /\ users' = users
             /\ userSeq' = userSeq
             /\ pc' = pc]_vars

C2_Witness ==
    /\ lastResult.op = "registerUser"
    /\ lastResult.error = DuplicateEmailMsg
    /\ \E u \in users : u.email = lastResult.input.email

\* C3: after registerUser(email, password) has succeeded, loginUser with
\* the same email and password succeeds and returns the id and the email of
\* the user that the registration created.
C3_RegisterLoginRoundTrip ==
    (lastResult.op = "registerUser" /\ lastResult.ok)
    => LET login == loginUser(users, lastResult.input)
       IN  /\ login.ok
           /\ login.value = lastResult.value

\* The credential is a non-empty salt, one ":", and a non-empty hash that is
\* the hex digest of password + salt, character for character.
IsSaltColonHashOf(credential, password) ==
    \E i \in 1..Len(credential) :
        /\ credential[i] = ":"
        /\ LET salt == SubSeq(credential, 1, i - 1)
               hash == SubSeq(credential, i + 1, Len(credential))
           IN  /\ salt # << >>
               /\ hash # << >>
               /\ hash = hashPassword(password, salt)

\* C4: for an existing user, loginUser succeeds if and only if the stored
\* credential parses as 'salt:hash' with both parts non-empty and
\* H(password + salt) equals the stored hash; for every other credential and
\* every password it fails with 'Invalid email or password'.
C4_LoginIffSaltColonHash ==
    \A u \in users : \A password \in LoginPasswords :
        LET login == loginUser(users, [email |-> u.email, password |-> password])
        IN  /\ login.ok <=> IsSaltColonHashOf(u.password_hash, password)
            /\ ~login.ok => login.error = InvalidLoginMsg

\* C5: a login with an email that no user has and a login with an existing
\* email and a wrong password fail in the same way: same operation outcome,
\* same message, no value.
C5_LoginFailuresAlike ==
    \A e1 \in Emails : \A e2 \in Emails : \A p1 \in LoginPasswords : \A p2 \in LoginPasswords :
        LET unknown == loginUser(users, [email |-> e1, password |-> p1])
            wrong == loginUser(users, [email |-> e2, password |-> p2])
        IN  ((\A u \in users : u.email # e1) /\ (\E u \in users : u.email = e2) /\ ~wrong.ok)
            => /\ ~unknown.ok
               /\ unknown.error = wrong.error
               /\ unknown.value = wrong.value
               /\ unknown.op = wrong.op
               /\ unknown.caller = wrong.caller

\* A login with a wrong password on a user whose credential verifies for
\* another password, while some email has no user.
C5_Witness ==
    /\ lastResult.op = "loginUser"
    /\ ~lastResult.ok
    /\ \E u \in users :
          /\ u.email = lastResult.input.email
          /\ \E password \in LoginPasswords : verifyPassword(password, u.password_hash)
    /\ \E e \in Emails : \A u \in users : u.email # e

\* C6: the value of every successful registerUser and loginUser call is a
\* user with the fields id, email and created_at of a stored row and nothing
\* else; no returned value has a password_hash field.
C6_PublicProjectionOnly ==
    lastResult.ok =>
        /\ "password_hash" \notin DOMAIN lastResult.value
        /\ lastResult.op \in {"registerUser", "loginUser"} =>
              /\ DOMAIN lastResult.value = {"user"}
              /\ DOMAIN lastResult.value.user = {"id", "email", "created_at"}
              /\ \E u \in users :
                    /\ u.id = lastResult.value.user.id
                    /\ u.email = lastResult.value.user.email
                    /\ u.created_at = lastResult.value.user.created_at

C6_Witness ==
    /\ lastResult.op = "loginUser"
    /\ lastResult.ok
    /\ \E u \in users : u.id = lastResult.value.user.id /\ Len(u.password_hash) > 0

\* C7: emails that differ only in letter case are distinct identities.  If
\* a user has email e and none has e2, where e2 is e in another case, then
\* loginUser with e2 fails with 'Invalid email or password' for every
\* password, the user's own included, and a registration of e2 is not
\* turned away: its lookup finds nothing and its insert goes through.
C7_CaseSensitiveEmail ==
    \A e \in Emails : \A e2 \in Emails :
        (/\ e # e2
         /\ CaseFold(e) = CaseFold(e2)
         /\ \E u \in users : u.email = e
         /\ \A u \in users : u.email # e2)
        => /\ \A password \in LoginPasswords :
                 LET login == loginUser(users, [email |-> e2, password |-> password])
                 IN  ~login.ok /\ login.error = InvalidLoginMsg
           /\ SelectUsersByEmail(users, e2) = {}
           /\ InsertUser(users, userSeq, e2, BunPasswordHash(Password1, Salt1), userSeq + 1).ok

\* A login under the other case of a user's email was refused although the
\* password is that user's.
C7_Witness ==
    /\ lastResult.op = "loginUser"
    /\ ~lastResult.ok
    /\ \A u \in users : u.email # lastResult.input.email
    /\ \E u \in users :
          /\ CaseFold(u.email) = CaseFold(lastResult.input.email)
          /\ verifyPassword(lastResult.input.password, u.password_hash)

(***************************************************************************)
(* Properties of the task subsystem.                                       *)
(***************************************************************************)

\* C8: a task is changed or removed only by a call made for its owner: in
\* every step that alters or deletes a stored task, the user the call was
\* made for is the task's user_id.  In particular no updateTask call made
\* for another user changes any field of the task.
C8_OnlyOwnerMutates ==
    [][\A t \in tasks : t \notin tasks' => lastResult'.caller = t.user_id]_vars

\* C9: a deleteTask(id, user_id) call that finds no task with that id and
\* that owner fails with 'Task not found or access denied' and leaves the
\* task store as it was; a task of another user keeps every field.
C9_DeleteRejected ==
    [][\A p \in Procs : \A input \in TaskKeys :
          (DeleteCheck(p, {input})
           /\ (\A t \in tasks : ~(t.id = input.id /\ t.user_id = input.user_id)))
          => /\ lastResult' = Reject("deleteTask", input.user_id, input, AccessDeniedMsg)
             /\ tasks' = tasks
             /\ taskSeq' = taskSeq
             /\ pc' = pc]_vars

\* A delete of another user's task was refused and the task is still there.
C9_Witness ==
    /\ lastResult.op = "deleteTask"
    /\ lastResult.error = AccessDeniedMsg
    /\ \E t \in tasks : t.id = lastResult.input.id /\ t.user_id # lastResult.input.user_id

\* C10: for shareTask and for deleteTask, a caller who names another user's
\* task gets the outcome he gets for an id that no task has: the same
\* failure with the same message and no value.
C10_ForeignLikeMissing ==
    \A user_id \in UserIds : \A id1 \in TaskIds : \A id2 \in TaskIds :
        ((\E t \in tasks : t.id = id1 /\ t.user_id # user_id) /\ (\A t \in tasks : t.id # id2))
        => LET foreign == [id |-> id1, user_id |-> user_id]
               missing == [id |-> id2, user_id |-> user_id]
           IN  /\ ~shareTask(tasks, foreign).ok
               /\ ~shareTask(tasks, missing).ok
               /\ shareTask(tasks, foreign).error = shareTask(tasks, missing).error
               /\ shareTask(tasks, foreign).value = shareTask(tasks, missing).value
               /\ ~deleteTaskLookup(tasks, foreign).ok
               /\ ~deleteTaskLookup(tasks, missing).ok
               /\ deleteTaskLookup(tasks, foreign).error = deleteTaskLookup(tasks, missing).error
               /\ deleteTaskLookup(tasks, foreign).value = deleteTaskLookup(tasks, missing).value

\* A share of another user's task was refused while some id has no task.
C10_Witness ==
    /\ lastResult.op = "shareTask"
    /\ ~lastResult.ok
    /\ \E t \in tasks : t.id = lastResult.input.id /\ t.user_id # lastResult.input.user_id
    /\ \E id \in TaskIds : \A t \in tasks : t.id # id

\* C11: a successful deleteTask(id, user_id) of the owner returns
\* {success: true} and removes exactly the task with that id: afterwards no
\* task has the id, every other task, of the same user and of other users,
\* is as it was, and so is every user row.
C11_DeleteRemovesExactlyOne ==
    [][\A p \in Procs :
          DeleteExec(p)
          => LET input == req[p]
             IN  /\ \E t \in tasks : t.id = input.id /\ t.user_id = input.user_id
                 /\ lastResult' = Resolve("deleteTask", input.user_id, input,
                                          [success |-> TRUE])
                 /\ \A t \in tasks' : t.id # input.id
                 /\ tasks' = {t \in tasks : t.id # input.id}
                 /\ users' = users
                 /\ userSeq' = userSeq
                 /\ taskSeq' = taskSeq]_vars

\* The owner deleted one of his two tasks; the other one is still stored.
C11_Witness ==
    /\ lastResult.op = "deleteTask"
    /\ lastResult.ok
    /\ lastResult.value = [success |-> TRUE]
    /\ lastResult.input.id <= taskSeq
    /\ \A t \in tasks : t.id # lastResult.input.id
    /\ \E t \in tasks : t.user_id = lastResult.input.user_id

\* The id was drawn from the serial and no stored task has it: the task
\* with that id was deleted.
WasDeleted(id) == id \in 1..taskSeq /\ \A t \in tasks : t.id # id

\* C12: once deleteTask(id, owner) has succeeded, the id stays without a
\* task (no later createTask draws it again), every later deleteTask for
\* the id is refused with 'Task not found or access denied' and changes no
\* state, and no delete statement runs for the id again.
C12_DeleteStaysDeleted ==
    /\ []((lastResult.op = "deleteTask" /\ lastResult.ok) => WasDeleted(lastResult.input.id))
    /\ [][\A input \in TaskKeys :
             WasDeleted(input.id)
             => /\ \A t \in tasks' : t.id # input.id
                /\ \A p \in Procs :
                      /\ DeleteCheck(p, {input})
                         => /\ lastResult' = Reject("deleteTask", input.user_id, input,
                                                   AccessDeniedMsg)
                            /\ UNCHANGED <<users, userSeq, tasks, taskSeq, pc, req>>
                      /\ ~(DeleteExec(p) /\ req[p].id = input.id)]_vars

\* A task was deleted, a later task was created under a new id, and a
\* second delete of the first id by its owner was refused.
C12_Witness ==
    /\ lastResult.op = "deleteTask"
    /\ lastResult.error = AccessDeniedMsg
    /\ WasDeleted(lastResult.input.id)
    /\ \E t \in tasks : t.id > lastResult.input.id /\ t.user_id = lastResult.input.user_id

\* C13: a createTask whose user_id is the id of no user fails with
\* 'User with id <id> not found' and inserts nothing: the task store and
\* the serial are as they were.
C13_CreateForUnknownUser ==
    [][lastResult'.op = "createTask"
        => LET input == lastResult'.input
           IN  ((\A u \in users : u.id # input.user_id)
                /\ \E p \in Procs : CreateTask(p, {input}))
                  => /\ ~lastResult'.ok
                     /\ lastResult'.error =
                           "User with id " \o ToString(input.user_id) \o " not found"
                     /\ UNCHANGED <<users, userSeq, tasks, taskSeq, pc, req>>]_vars

\* A create for user 2 was refused on a store that holds user 1 and a task
\* of his.
C13_Witness ==
    /\ lastResult.op = "createTask"
    /\ lastResult.error = "User with id 2 not found"
    /\ \A u \in users : u.id # 2
    /\ tasks # {}

\* C14: a successful createTask adds exactly one task row and returns it.
\* The row's user_id, title, description, due_date and completed are those
\* of the input, completed being false when the input leaves it out
\* (whether the input went through createTaskInputSchema or not); its id is
\* greater than 0 and is the id of no task created before it, all of which
\* have ids within the serial's past values.
C14_CreateAddsOneRow ==
    /\ [](\A t \in tasks : t.id \in 1..taskSeq)
    /\ [][taskSeq' >= taskSeq]_vars
    /\ [](\A raw \in EditCreateInputs :
             LET parsed == createTaskInputSchema(raw)
             IN  /\ parsed.success
                 /\ parsed.data.completed = IF raw.completed = << >> THEN <<FALSE>>
                                            ELSE raw.completed
                 /\ [parsed.data EXCEPT !.completed = raw.completed] = raw)
    /\ [][lastResult'.op = "createTask"
          => LET input == lastResult'.input
                 task == lastResult'.value
             IN  ((\E u \in users : u.id = input.user_id)
                  /\ \E p \in Procs : CreateTask(p, {input}))
                    => /\ lastResult'.ok
                       /\ task \notin tasks
                       /\ tasks' = tasks \cup {task}
                       /\ task.user_id = input.user_id
                       /\ task.title = input.title
                       /\ task.description = input.description
                       /\ task.due_date = input.due_date
                       /\ task.completed = (input.completed = <<TRUE>>)
                       /\ task.id > 0
                       /\ task.id > taskSeq
                       /\ task.id <= taskSeq'
                       /\ \A t \in tasks : t.id # task.id
                       /\ users' = users]_vars

\* A second task was created from an input without completed and came back
\* with completed false.
C14_Witness ==
    /\ lastResult.op = "createTask"
    /\ lastResult.ok
    /\ lastResult.input.completed = << >>
    /\ lastResult.value.completed = FALSE
    /\ lastResult.value \in tasks
    /\ \E t \in tasks : t.id < lastResult.value.id

\* C15: getUserTasks(user_id) returns exactly the tasks whose owner is
\* user_id, each of them once and no task of anyone else; so for a user
\* without tasks and for a user_id that no user has it returns the empty
\* sequence, and it never fails.
C15_ListExactlyOwnTasks ==
    \A input \in UserKeys :
        /\ getUserTasks(tasks, input) # {}
        /\ \A results \in getUserTasks(tasks, input) :
              /\ {results[i] : i \in DOMAIN results} = {t \in tasks : t.user_id = input.user_id}
              /\ Len(results) = Cardinality({t \in tasks : t.user_id = input.user_id})
              /\ (\A t \in tasks : t.user_id # input.user_id) => results = << >>
        /\ lastResult.op = "getUserTasks" => lastResult.ok

\* A list of one user's task while another user has a task too.
C15_Witness ==
    /\ lastResult.op = "getUserTasks"
    /\ lastResult.ok
    /\ Len(lastResult.value) = 1
    /\ lastResult.value[1] \in tasks
    /\ \E t \in tasks : t.user_id # lastResult.input.user_id

\* C16: in every state of the task store, whatever the order in which the
\* tasks were created and updated, every sequence getUserTasks can return
\* is sorted by due_date ascending: a.due_date <= b.due_date for consecutive
\* results a, b.
C16_ListSortedByDueDate ==
    /\ \A input \in UserKeys : \A results \in getUserTasks(tasks, input) :
          \A i \in 1..(Len(results) - 1) : results[i].due_date <= results[i + 1].due_date
    /\ lastResult.op = "getUserTasks"
       => \A i \in 1..(Len(lastResult.value) - 1) :
             lastResult.value[i].due_date <= lastResult.value[i + 1].due_date

\* A list whose first task was created after its second one and is due
\* earlier.
C16_Witness ==
    /\ lastResult.op = "getUserTasks"
    /\ Len(lastResult.value) = 2
    /\ lastResult.value[1].id > lastResult.value[2].id
    /\ lastResult.value[1].due_date < lastResult.value[2].due_date
    /\ lastResult.value[1] \in tasks
    /\ lastResult.value[2] \in tasks

\* C17: tasks of one owner with equal due_date are returned in ascending id
\* order, so that the result is a function of the task store: two calls on
\* the same store return the same sequence.
C17_TiesInIdOrder ==
    /\ \A input \in UserKeys : Cardinality(getUserTasks(tasks, input)) = 1
    /\ lastResult.op = "getUserTasks"
       => \A i \in DOMAIN lastResult.value : \A j \in DOMAIN lastResult.value :
             (i < j /\ lastResult.value[i].due_date = lastResult.value[j].due_date)
             => lastResult.value[i].id < lastResult.value[j].id

\* C18: an updateTask whose id no task has fails with
\* 'Task with id <id> not found', whichever fields it supplies, none
\* included, and leaves the task store as it was.
C18_UpdateMissingTask ==
    /\ [](\A input \in EditUpdateInputs :
             (\A t \in tasks : t.id # input.id)
             => LET look == updateTaskLookup(tasks, input, 1)
                IN  /\ ~look.ok
                    /\ look.error = "Task with id " \o ToString(input.id) \o " not found")
    /\ [][lastResult'.op = "updateTask"
          => LET input == lastResult'.input
             IN  ((\A t \in tasks : t.id # input.id)
                  /\ \E p \in Procs : UpdateTask(p, {input}, {1}))
                    => /\ ~lastResult'.ok
                       /\ lastResult'.error =
                             "Task with id " \o ToString(input.id) \o " not found"
                       /\ UNCHANGED <<users, userSeq, tasks, taskSeq, pc, req>>]_vars

\* An update that supplies no field was refused for id 2 while task 1 is
\* stored.
C18_Witness ==
    /\ lastResult.op = "updateTask"
    /\ lastResult.error = "Task with id 2 not found"
    /\ NoFields(lastResult.input)
    /\ \A t \in tasks : t.id # 2
    /\ \E t \in tasks : t.id = 1

\* C19: a successful updateTask changes, in the stored task and in the
\* returned one, exactly the fields among title, description, due_date and
\* completed that the input supplies.  Every other field keeps its value;
\* id, user_id and created_at of a task never change; all other tasks are
\* untouched; with no field supplied the call returns the task as stored
\* and changes nothing.
C19_UpdateChangesSuppliedFields ==
    /\ [][\A t \in tasks : \A t2 \in tasks' :
             t.id = t2.id => t.user_id = t2.user_id /\ t.created_at = t2.created_at]_vars
    /\ [][(/\ lastResult'.op = "updateTask"
           /\ \E t \in tasks : t.id = lastResult'.input.id
           /\ \E p \in Procs : UpdateTask(p, {lastResult'.input}, {1}))
          => LET input == lastResult'.input
                 before == CHOOSE t \in tasks : t.id = input.id
                 after == lastResult'.value
             IN  /\ lastResult'.ok
                 /\ DOMAIN after = DOMAIN before
                 /\ after.title =
                       IF input.title = << >> THEN before.title ELSE input.title[1]
                 /\ after.description =
                       IF input.description = << >> THEN before.description
                       ELSE input.description[1]
                 /\ after.due_date =
                       IF input.due_date = << >> THEN before.due_date
                       ELSE input.due_date[1]
                 /\ after.completed =
                       IF input.completed = << >> THEN before.completed
                       ELSE input.completed[1]
                 /\ after.id = before.id
                 /\ after.user_id = before.user_id
                 /\ after.created_at = before.created_at
                 /\ tasks' = (tasks \ {before}) \cup {after}
                 /\ NoFields(input) => after = before /\ tasks' = tasks
                 /\ UNCHANGED <<users, userSeq, taskSeq, pc, req>>]_vars

\* An update supplied an empty description and completed false and nothing
\* else: the returned task has them, with the title and the due date it was
\* created with, and another task is stored as it was created.
C19_Witness ==
    /\ lastResult.op = "updateTask"
    /\ lastResult.ok
    /\ lastResult.input.title = << >>
    /\ lastResult.input.due_date = << >>
    /\ lastResult.input.description = <<"">>
    /\ lastResult.input.completed = <<FALSE>>
    /\ lastResult.value.title = SpecialTitle
    /\ lastResult.value.due_date = 1
    /\ lastResult.value.description = ""
    /\ lastResult.value.completed = FALSE
    /\ lastResult.value \in tasks
    /\ \E t \in tasks :
          /\ t.id # lastResult.value.id
          /\ t.title = SpecialTitle
          /\ t.description = "D"
          /\ t.completed = TRUE

\* C20: for a task of the requester, shareTask returns exactly
\* 'Check out my task: "' + title + '"' + two newlines + 'Description: '
\* + description + two newlines + '#TaskManagement #Productivity', with
\* title and description as stored: quotes and '&' unchanged, and an empty
\* description leaving an empty segment.
C20_ShareTextTemplate ==
    \A t \in tasks :
        LET share == shareTask(tasks, [id |-> t.id, user_id |-> t.user_id])
        IN  /\ share.ok
            /\ DOMAIN share.value = {"shareText"}
            /\ share.value.shareText =
                  "Check out my task: \"" \o t.title \o "\"" \o "\n\n" \o "Description: "
                  \o t.description \o "\n\n" \o "#TaskManagement #Productivity"
            /\ (t.title = SpecialTitle /\ t.description = "")
               => share.value.shareText =
                     "Check out my task: \"Fix \"critical\" bug & update docs\"\n\nDescription: \n\n#TaskManagement #Productivity"

\* The owner shared a task whose title has quotes and '&' and whose
\* description is empty.
C20_Witness ==
    /\ lastResult.op = "shareTask"
    /\ lastResult.ok
    /\ \E t \in tasks :
          /\ t.id = lastResult.input.id
          /\ t.user_id = lastResult.input.user_id
          /\ t.title = SpecialTitle
          /\ t.description = ""
    /\ lastResult.value.shareText =
          "Check out my task: \"Fix \"critical\" bug & update docs\"\n\nDescription: \n\n#TaskManagement #Productivity"

(***************************************************************************)
(* Properties of the server as a whole.                                    *)
(***************************************************************************)

\* C21: the read operations shareTask, getUserTasks and loginUser never
\* change what is stored: after every call of one of them, successful or
\* failed, the user store and the task store (and both serials) are what
\* they were before the call.
C21_ReadsChangeNothing ==
    [][(LET input == lastResult'.input
        IN  \/ lastResult'.op = "shareTask" /\ \E p \in Procs : ShareTask(p, {input})
            \/ lastResult'.op = "getUserTasks" /\ \E p \in Procs : GetUserTasks(p, {input})
            \/ lastResult'.op = "loginUser" /\ \E p \in Procs : LoginUser(p, {input}))
       => /\ users' = users
          /\ userSeq' = userSeq
          /\ tasks' = tasks
          /\ taskSeq' = taskSeq]_vars

\* A login succeeded on a store that holds users and tasks.
C21_Witness ==
    /\ lastResult.op = "loginUser"
    /\ lastResult.ok
    /\ \E u \in users : u.email = lastResult.input.email
    /\ tasks # {}

\* An update of the task that supplies completed and nothing else.
CompletedOnly(id, flag) ==
    [id |-> id, title |-> << >>, description |-> << >>, due_date |-> << >>,
     completed |-> <<flag>>]

\* C22: the completed flag of a stored task changes only in a step that is
\* a successful updateTask on that task whose input supplies completed, and
\* it takes the supplied value; no other operation (a createTask, a
\* getUserTasks, a shareTask, a loginUser, a registerUser, a deleteTask of
\* another task, an updateTask without completed) changes it.  From either
\* value of the flag such an update leads to the other one.
C22_CompletedOnlyByUpdate ==
    /\ [][\A t \in tasks : \A t2 \in tasks' :
             (t.id = t2.id /\ t.completed # t2.completed)
             => /\ lastResult'.op = "updateTask"
                /\ lastResult'.ok
                /\ lastResult'.input.id = t.id
                /\ lastResult'.input.completed = <<t2.completed>>]_vars
    /\ [](\A t \in tasks :
             LET write == updateTaskStatement(tasks, CompletedOnly(t.id, ~t.completed), 1)
             IN  /\ write.result.ok
                 /\ write.store = (tasks \ {t}) \cup {[t EXCEPT !.completed = ~t.completed]})

\* An update that supplies only completed: false came back with the task
\* pending, after a title update and next to a task that is completed.
C22_Witness ==
    /\ lastResult.op = "updateTask"
    /\ lastResult.ok
    /\ lastResult.input = CompletedOnly(lastResult.input.id, FALSE)
    /\ lastResult.value.completed = FALSE
    /\ lastResult.value.title = "T2"
    /\ lastResult.value \in tasks
    /\ \E t \in tasks : t.completed

\* C25: read-your-writes.  The task that a successful createTask returns
\* is in the store; a stored task stays, with the field values of the last
\* successful updateTask of it, until a deleteTask of it succeeds; and every
\* getUserTasks of its owner returns it exactly once with the values it has
\* in the store.  A getUserTasks made right after the first createTask
\* (completed left out) of a just registered user returns that one task,
\* with completed false.
C25_ReadYourWrites ==
    /\ [][(lastResult'.op = "createTask" /\ lastResult'.ok /\ taskSeq' # taskSeq)
          => /\ lastResult'.value \in tasks'
             /\ lastResult'.value.user_id = lastResult'.input.user_id
             /\ \A t \in tasks : lastResult'.value.id # t.id]_vars
    /\ [][\A t \in tasks :
             \/ t \in tasks'
             \/ /\ lastResult'.op = "deleteTask"
                /\ lastResult'.ok
                /\ lastResult'.input.id = t.id
                /\ \A t2 \in tasks' : t2.id # t.id
             \/ /\ lastResult'.op = "updateTask"
                /\ lastResult'.ok
                /\ lastResult'.input.id = t.id
                /\ lastResult'.value \in tasks'
                /\ lastResult'.value.id = t.id
                /\ lastResult'.value.user_id = t.user_id
                /\ \A t2 \in tasks' : t2.id = t.id => t2 = lastResult'.value]_vars
    /\ [](lastResult.op = "getUserTasks"
          => \A t \in tasks :
                t.user_id = lastResult.input.user_id
                => Cardinality({i \in DOMAIN lastResult.value : lastResult.value[i].id = t.id
                                                               /\ lastResult.value[i] = t})
                   = 1)
    /\ [][(/\ lastResult.op = "createTask"
           /\ lastResult.ok
           /\ lastResult.input.completed = << >>
           /\ taskSeq = 1
           /\ lastResult'.op = "getUserTasks"
           /\ lastResult'.input.user_id = lastResult.input.user_id)
          => /\ Len(lastResult'.value) = 1
             /\ lastResult'.value[1] = lastResult.value
             /\ lastResult'.value[1].completed = FALSE]_vars

\* getUserTasks of the registered user returned one task, with the title an
\* update wrote last, after a second task was created and deleted.
C25_Witness ==
    /\ lastResult.op = "getUserTasks"
    /\ Len(lastResult.value) = 1
    /\ lastResult.value[1].title = "T2"
    /\ lastResult.value[1].id = 1
    /\ lastResult.value[1] \in tasks
    /\ taskSeq = 2
    /\ \E u \in users : u.id = lastResult.input.user_id /\ u.password_hash[1] = "$"

(***************************************************************************)
(* Properties of the dashboard.                                            *)
(***************************************************************************)

\* C23: the status badge of a task is a function of its completed flag, its
\* due date and the time of the render, with exactly one of four values:
\* 'completed' if the task is completed; otherwise 'overdue' if the due date
\* is before now; otherwise 'due-soon' if the due date is less than 24 hours
\* after now; otherwise 'normal'.  The overdue tab and the overdue counter of
\* the same render hold exactly the tasks whose badge is 'overdue'.
C23_DerivedStatus ==
    LET screen == dashboard.screen
    IN  /\ \A i \in DOMAIN screen.cards :
              LET task == screen.cards[i].task
                  status == screen.cards[i].status
              IN  /\ status = (IF task.completed THEN "completed"
                               ELSE IF task.due_date < screen.now THEN "overdue"
                               ELSE IF task.due_date < screen.now + 24 * MsPerHour
                                    THEN "due-soon"
                               ELSE "normal")
                  /\ (\E j \in DOMAIN screen.overdueTab : screen.overdueTab[j] = task)
                        <=> status = "overdue"
        /\ screen.overdueTasks =
              Cardinality({i \in DOMAIN screen.cards : screen.cards[i].status = "overdue"})
        /\ \A completed \in BOOLEAN, due \in DueDates, now \in Nows :
              getDueDateStatus([completed |-> completed, due_date |-> due], now)
                 \in {"completed", "overdue", "due-soon", "normal"}

\* A render that shows an overdue task next to a completed task whose due
\* date has passed as well, and counts one overdue task.
C23_Witness ==
    /\ Len(dashboard.screen.cards) = 2
    /\ \E i \in DOMAIN dashboard.screen.cards, j \in DOMAIN dashboard.screen.cards :
          /\ dashboard.screen.cards[i].status = "overdue"
          /\ dashboard.screen.cards[j].status = "completed"
          /\ dashboard.screen.cards[j].task.due_date < dashboard.screen.now
    /\ dashboard.screen.overdueTasks = 1
    /\ Len(dashboard.screen.overdueTab) = 1

\* C30: after every handleCreateTask, handleUpdateTask and handleDeleteTask
\* whose server call succeeded, the dashboard's task list is a sequence that
\* getUserTasks can return for the user (the same tasks, in ascending order
\* of due date); when the server call failed the list is as it was.
C30_DashboardMatchesServer ==
    [][(/\ lastResult.op \in {"createTask", "updateTask", "deleteTask"}
        /\ lastResult' = NoResult)
       => IF lastResult.ok
          THEN dashboard'.tasks \in getUserTasks(tasks', [user_id |-> DashboardUser])
          ELSE dashboard'.tasks = dashboard.tasks]_vars

(***************************************************************************)
(* Properties of the remote-procedure surface.                             *)
(***************************************************************************)

\* C27: with createTask and updateTask called through the router, every
\* stored task has a non-empty title in every reachable state.  The schemas
\* reject a raw input exactly when it supplies an empty title, so an empty
\* description passes, at creation and at update.
C27_TitlesNonEmpty ==
    /\ \A t \in tasks : t.title # ""
    /\ \A raw \in RouterCreates : createTaskInputSchema(raw).success <=> raw.title # ""
    /\ \A raw \in RouterUpdates : updateTaskInputSchema(raw).success <=> raw.title # <<"">>
    /\ (lastResult.op = "createTask" /\ lastResult.error = TitleRequiredMsg)
          => lastResult.input.title = ""
    /\ (lastResult.op = "updateTask" /\ lastResult.error = TitleRequiredMsg)
          => lastResult.input.title = <<"">>

\* A task created with an empty description, another one whose description
\* an update emptied, and an update with an empty title just rejected.
C27_Witness ==
    /\ lastResult.op = "updateTask"
    /\ ~lastResult.ok
    /\ lastResult.error = TitleRequiredMsg
    /\ lastResult.input.description = <<"">>
    /\ \E t \in tasks : t.id = lastResult.input.id /\ t.description = "" /\ t.title = "T1"
    /\ \E t \in tasks : t.description = "" /\ t.title = "T2"

(***************************************************************************)
(* Properties of overlapping requests.                                     *)
(***************************************************************************)

\* C24: overlapping updateTask calls on one task are last-write-wins per
\* statement.  Each write statement, whatever lookups and writes of other
\* calls lie between it and its own lookup, sets the fields its call
\* supplies and keeps every other field at the value the row holds at that
\* moment; it changes no other row.  So once all calls have completed each
\* field holds the value of the last write that supplied it, or its prior
\* value, and never a value that neither the creation nor an update gave.
C24_LastWriteWins ==
    /\ [][(/\ lastResult'.op = "updateTask"
           /\ \E p \in Procs : pc[p] = "update_write" /\ pc'[p] = "idle"
                               /\ req[p] = lastResult'.input)
          => LET input == lastResult'.input
             IN  /\ lastResult'.ok
                 /\ lastResult'.value \in tasks'
                 /\ {t \in tasks' : t.id # input.id} = {t \in tasks : t.id # input.id}
                 /\ \A t \in tasks : t.id = input.id =>
                       \E t2 \in tasks' :
                          /\ t2.id = t.id
                          /\ t2.user_id = t.user_id
                          /\ t2.created_at = t.created_at
                          /\ t2.title = (IF input.title = << >>
                                         THEN t.title ELSE input.title[1])
                          /\ t2.description = (IF input.description = << >>
                                               THEN t.description ELSE input.description[1])
                          /\ t2.due_date = (IF input.due_date = << >>
                                            THEN t.due_date ELSE input.due_date[1])
                          /\ t2.completed = (IF input.completed = << >>
                                             THEN t.completed ELSE input.completed[1])
                 /\ \A t \in tasks' : \A t2 \in tasks' : t.id = t2.id => t = t2]_vars
    /\ [](\A t \in tasks :
             /\ t.title \in {c.title : c \in RaceCreates}
                            \cup {u.title[1] : u \in {r \in RaceUpdates : r.title # << >>}}
             /\ t.description \in {c.description : c \in RaceCreates}
                   \cup {u.description[1] : u \in {r \in RaceUpdates : r.description # << >>}}
             /\ t.due_date \in {c.due_date : c \in RaceCreates}
                   \cup {u.due_date[1] : u \in {r \in RaceUpdates : r.due_date # << >>}}
             /\ t.completed \in {c.completed[1] : c \in RaceCreates}
                   \cup {u.completed[1] : u \in {r \in RaceUpdates : r.completed # << >>}})

\* An update of task 1 has just written its title, description and due
\* date over a row that the other update had written before (completed is
\* still that update's), while a further update of the same task is between
\* its lookup and its write.
C24_Witness ==
    /\ lastResult.op = "updateTask"
    /\ lastResult.ok
    /\ lastResult.input.id = 1
    /\ lastResult.input.title = <<"T3">>
    /\ lastResult.value.title = "T3"
    /\ lastResult.value.description = "F"
    /\ lastResult.value.due_date = 2
    /\ lastResult.value.completed = TRUE
    /\ lastResult.value \in tasks
    /\ \E p \in Procs : /\ pc[p] = "update_write"
                        /\ req[p].id = 1
                        /\ req[p].title = <<"T2">>
    /\ \E t \in tasks : t.id = 2 /\ t.title = "T1"

\* C26: when two registerUser calls for one email overlap (each makes its
\* existence check before the other inserts), one creates the user and the
\* other, whose insert finds the email present, adds no user and is rejected
\* with 'Email already registered', as a second registration made after the
\* first is.
C26_OverlappingRegistrations ==
    [][(\E p \in Procs : /\ pc[p] = "register_insert"
                         /\ pc'[p] = "idle"
                         /\ \E u \in users : u.email = req[p].email)
       => /\ users' = users
          /\ ~lastResult'.ok
          /\ lastResult'.op = "registerUser"
          /\ lastResult'.error = DuplicateEmailMsg]_vars

\* C28: an updateTask whose row a deleteTask removed between the update's
\* lookup and its write statement fails with 'Task with id <id> not found',
\* as an update of an id that no task has, and does not bring the task
\* back: no row with that id exists afterwards.
C28_UpdateAfterDelete ==
    [][(\E p \in Procs : /\ pc[p] = "update_write"
                         /\ pc'[p] = "idle"
                         /\ SelectTasksById(tasks, req[p].id) = {})
       => /\ lastResult'.op = "updateTask"
          /\ ~lastResult'.ok
          /\ lastResult'.error = TaskNotFoundMsg(lastResult'.input.id)
          /\ SelectTasksById(tasks', lastResult'.input.id) = {}
          /\ tasks' = tasks]_vars

\* C29: of two overlapping deleteTask calls by the owner on one task, the
\* one whose delete statement runs second, finding the row gone, fails with
\* 'Task not found or access denied' and changes nothing; only the first
\* returns {success: true}.
C29_OverlappingDeletes ==
    [][(\E p \in Procs :
           /\ pc[p] = "delete_exec"
           /\ pc'[p] = "idle"
           /\ SelectTasksByIdAndUser(tasks, req[p].id, req[p].user_id) = {})
       => /\ tasks' = tasks
          /\ lastResult'.op = "deleteTask"
          /\ ~lastResult'.ok
          /\ lastResult'.error = AccessDeniedMsg]_vars
====
